---- MODULE Spec2Model ----
(***************************************************************************)
(* babel-preset-env, src/index.js: the requirement evaluator               *)
(* (isPluginRequired), the item classifier (transformIncludesAndExcludes), *)
(* the default selector (getPlatformSpecificDefaultFor), the filter engine *)
(* (filterItems) and the top-level resolution (buildPreset) with its       *)
(* process-wide one-shot flag hasBeenLogged.                               *)
(*                                                                         *)
(* Encoding of JavaScript values                                           *)
(*   version descriptor  a sequence of naturals: <<a, b, c>> is the string *)
(*                       "a.b.c", <<a>> is the bare major a (the number a  *)
(*                       or the numeric string "a"), <<>> is a string that *)
(*                       is no version at all, such as "latest"            *)
(*   object used as map  a function whose DOMAIN is Object.keys            *)
(*   Set                 a duplicate-free sequence in insertion order      *)
(*   array               a sequence                                        *)
(*   result or throw     a record [error, value]; error = "none" is a      *)
(*                       normal return of value                            *)
(***************************************************************************)
EXTENDS Integers, Sequences, FiniteSets, TLC

VARIABLES
    hasBeenLogged,  \* the module-level flag (index.js line 55)
    pc,             \* "idle": no call in progress; "done": a call has ended
    callee,         \* the function that was called last
    args,           \* its arguments
    ret,            \* its outcome: a return value or a thrown error
    console,        \* what the last call wrote with console.log, in order
    banners         \* how many times the summary banner was written so far

vars == <<hasBeenLogged, pc, callee, args, ret, console, banners>>

-----------------------------------------------------------------------------
(* Bounds and input domains *)

MaxMajor == 2

\* Cap of the banner counter (the counter is a history variable).
MaxBanners == 2

Envs == {"chrome", "node"}

MinorPatch == {0, 1}

Latest == <<>>

SemVers == {<<a, b, c>> : a \in 1..MaxMajor, b \in MinorPatch, c \in MinorPatch}

BareMajors == {<<a>> : a \in 1..MaxMajor}

\* What a target map can hold: full versions, and the invalid shapes.
TargetVersions == SemVers \cup BareMajors \cup {Latest}

\* What a support table holds: full versions and bare majors. A catalogued
\* version is a non-empty string or a positive number, hence truthy.
SupportVersions == SemVers \cup BareMajors

MapsTo(V) == UNION {[D -> V] : D \in SUBSET Envs}

EmptyMap == [e \in {} |-> Latest]

TargetMaps == MapsTo(TargetVersions)

SupportTables == MapsTo(SupportVersions)

-----------------------------------------------------------------------------
(* Inputs of the direct calls of filterItems *)

ItemNames == {"es6.promise", "web.timers", "transform-regenerator"}

FilterTables ==
    {EmptyMap} \cup {[e \in {"chrome"} |-> <<a>>] : a \in 1..MaxMajor}

Catalogs ==
    {<<>>}
    \cup {<<[name |-> n, plugin |-> t]>> : n \in ItemNames, t \in FilterTables}
    \cup {<<[name |-> n[1], plugin |-> t[1]], [name |-> n[2], plugin |-> t[2]]>> :
            n \in {m \in ItemNames \X ItemNames : m[1] # m[2]},
            t \in FilterTables \X FilterTables}

NameLists ==
    {<<>>} \cup {<<n>> : n \in ItemNames}
    \cup {m \in ItemNames \X ItemNames : m[1] # m[2]}

ExcludeLists == NameLists

FilterTargets ==
    {EmptyMap}
    \cup {[e \in {"chrome"} |-> v] : v \in {<<a, 0, 0>> : a \in 1..MaxMajor}
                                          \cup {Latest}}

DefaultSets ==
    {[isNull |-> TRUE, items |-> <<>>]}
    \cup {[isNull |-> FALSE, items |-> d] :
            d \in {<<>>} \cup {<<n>> : n \in ItemNames}}

-----------------------------------------------------------------------------
(* Inputs of buildPreset: the normalized options *)

OptionArrays ==
    { <<>>,
      <<"transform-exponentiation-operator">>,
      <<"transform-regenerator">>,
      <<"es6.promise">>,
      <<"web.dom.iterable">>,
      <<"transform-async-to-generator", "transform-exponentiation-operator">> }

EnvTargets ==
    MapsTo({<<a, 0, 0>> : a \in 1..MaxMajor} \cup {Latest})

\* The targets option: environments, and possibly uglify: true.
OptionTargets ==
    EnvTargets
    \cup {[e \in DOMAIN T \cup {"uglify"} |->
              IF e = "uglify" THEN TRUE ELSE T[e]] : T \in EnvTargets}

Options ==
    [ debug       : BOOLEAN,
      include     : OptionArrays,
      exclude     : OptionArrays,
      loose       : BOOLEAN,
      moduleType  : {"false", "commonjs", "cjs"},
      targets     : OptionTargets,
      useBuiltIns : {"off", "entry", "usage"},
      useSyntax   : BOOLEAN ]

-----------------------------------------------------------------------------
(* Outcomes *)

Return(v) == [error |-> "none", value |-> v]

Throw(e) == [error |-> e, value |-> <<>>]

-----------------------------------------------------------------------------
(* The semver library and ./utils *)

\* semver.valid: only a full major.minor.patch string is valid.
semverValid(version) == Len(version) = 3

\* semver.gt on two valid versions: major, then minor, then patch.
semverGt(a, b) ==
    \/ a[1] > b[1]
    \/ a[1] = b[1] /\ a[2] > b[2]
    \/ a[1] = b[1] /\ a[2] = b[2] /\ a[3] > b[3]

\* semver.lt on two valid versions.
semverLt(a, b) == semverGt(b, a)

\* semverify: a valid version is kept, a bare major m becomes m.0.0.
semverify(version) ==
    IF semverValid(version) THEN version ELSE <<version[1], 0, 0>>

-----------------------------------------------------------------------------
(* JavaScript Set *)

Range(s) == {s[i] : i \in 1..Len(s)}

SetHas(s, x) == x \in Range(s)

SetAdd(s, x) == IF SetHas(s, x) THEN s ELSE Append(s, x)

RECURSIVE SetAddAll(_, _)
SetAddAll(s, items) ==
    IF items = <<>> THEN s ELSE SetAddAll(SetAdd(s, Head(items)), Tail(items))

-----------------------------------------------------------------------------
(* isPluginRequired, lines 23-53 *)

isPluginRequired_NonStrict(supportedEnvironments, plugin) ==
    LET targetEnvironments == DOMAIN supportedEnvironments
        implemented(e) == e \in DOMAIN plugin
    IN  IF targetEnvironments = {} THEN Return(TRUE)
        ELSE IF \E e \in targetEnvironments :
                    implemented(e) /\ ~semverValid(supportedEnvironments[e])
             THEN Throw("InvalidTargetVersion")
             ELSE Return(\E e \in targetEnvironments :
                            \/ ~implemented(e)
                            \/ ~semverGt(supportedEnvironments[e],
                                         semverify(plugin[e])))

isPluginRequired(supportedEnvironments, plugin) ==
    LET targetEnvironments == DOMAIN supportedEnvironments
        \* !plugin[environment]: the table has no (truthy) entry
        notImplemented(e) == e \notin DOMAIN plugin
        throws(e) ==
            /\ ~notImplemented(e)
            /\ ~semverValid(supportedEnvironments[e])
        isRequiredForEnvironments ==
            {e \in targetEnvironments :
                \/ notImplemented(e)
                \/ semverGt(semverify(plugin[e]), supportedEnvironments[e])}
    IN  IF targetEnvironments = {} THEN Return(TRUE)
        ELSE IF \E e \in targetEnvironments : throws(e)
             THEN Throw("InvalidTargetVersion")
             ELSE Return(isRequiredForEnvironments # {})

-----------------------------------------------------------------------------
(* Static data of the package: the catalogs and the default includes *)

\* An object literal as for-in walks it: entries in key order.
Entry(name, plugin) == [name |-> name, plugin |-> plugin]

Table(chrome, node) == [e \in {"chrome", "node"} |->
                            IF e = "chrome" THEN <<chrome>> ELSE <<node>>]

ChromeOnly(chrome) == [e \in {"chrome"} |-> <<chrome>>]

\* data/plugins.json
pluginList ==
    << Entry("transform-exponentiation-operator", Table(1, 1)),
       Entry("transform-async-to-generator", Table(2, 2)),
       Entry("transform-regenerator", ChromeOnly(2)) >>

\* data/built-ins.json
builtInsList ==
    << Entry("es6.promise", Table(1, 1)),
       Entry("es7.object.values", Table(2, 2)),
       Entry("web.timers", EmptyMap) >>

\* ./default-includes
defaultWebIncludes == <<"web.timers", "web.dom.iterable">>

\* ./module-transformations: module type -> name of its transform
moduleTransformations ==
    [m \in {"amd", "commonjs"} |-> "transform-es2015-modules-" \o m]

\* null, and an array that is not null
Null == [isNull |-> TRUE, items |-> <<>>]

Items(a) == [isNull |-> FALSE, items |-> a]

-----------------------------------------------------------------------------
(* getBuiltInTargets, lines 69-75 *)

getBuiltInTargets(targets) ==
    [e \in DOMAIN targets \ {"uglify"} |-> targets[e]]

-----------------------------------------------------------------------------
(* transformIncludesAndExcludes, lines 77-90 *)

Digits == {"0", "1", "2", "3", "4", "5", "6", "7", "8", "9"}

CharAt(str, i) == SubSeq(str, i, i)

\* opt.match(/^(es\d+|web)\./)
MatchesBuiltIn(opt) ==
    \/ Len(opt) >= 4 /\ SubSeq(opt, 1, 4) = "web."
    \/ /\ Len(opt) >= 4
       /\ SubSeq(opt, 1, 2) = "es"
       /\ \E k \in 4..Len(opt) :
            /\ CharAt(opt, k) = "."
            /\ \A i \in 3..(k - 1) : CharAt(opt, i) \in Digits

transformIncludesAndExcludes(opts) ==
    [ all      |-> opts,
      plugins  |-> SetAddAll(<<>>, SelectSeq(opts, LAMBDA o : ~MatchesBuiltIn(o))),
      builtIns |-> SetAddAll(<<>>, SelectSeq(opts, MatchesBuiltIn)) ]

-----------------------------------------------------------------------------
(* getPlatformSpecificDefaultFor, lines 92-98 *)

getPlatformSpecificDefaultFor_AllWeb(targets) ==
    LET targetNames == DOMAIN targets
        isAnyTarget == targetNames = {}
        isWebTarget == \A name \in targetNames : name # "node"
    IN  IF isAnyTarget \/ isWebTarget THEN Items(defaultWebIncludes) ELSE Null

getPlatformSpecificDefaultFor(targets) ==
    LET targetNames == DOMAIN targets
        isAnyTarget == targetNames = {}
        isWebTarget == \E name \in targetNames : name # "node"
    IN  IF isAnyTarget \/ isWebTarget THEN Items(defaultWebIncludes) ELSE Null

-----------------------------------------------------------------------------
(* filterItems, lines 100-118 *)

\* lines 103-109: the walk over the catalog; the first throw ends it
RECURSIVE filterList(_, _, _, _)
filterList(list, excludes, targets, result) ==
    IF list = <<>> THEN Return(result)
    ELSE LET item == Head(list).name
             excluded == SetHas(excludes, item)
             required == isPluginRequired(targets, Head(list).plugin)
         IN  IF excluded
             THEN filterList(Tail(list), excludes, targets, result)
             ELSE IF required.error # "none" THEN Throw(required.error)
             ELSE filterList(Tail(list), excludes, targets,
                             IF required.value THEN SetAdd(result, item)
                                               ELSE result)

\* lines 111-113
addDefaults(result, excludes, defaultItems) ==
    IF defaultItems.isNull THEN result
    ELSE SetAddAll(result,
                   SelectSeq(defaultItems.items,
                             LAMBDA item : ~SetHas(excludes, item)))

filterItems_ExcludeLast(list, includes, excludes, targets, defaultItems) ==
    LET walked == filterList(list, excludes, targets, <<>>)
    IN  IF walked.error # "none" THEN walked
        ELSE Return(SelectSeq(
                 SetAddAll(addDefaults(walked.value, <<>>, defaultItems), includes),
                 LAMBDA item : ~SetHas(excludes, item)))

filterItems_DefaultsFiltered(list, includes, excludes, targets, defaultItems) ==
    LET walked == filterList(list, excludes, targets, <<>>)
        known(item) == \E i \in 1..Len(list) : list[i].name = item
        kept == IF defaultItems.isNull THEN Null
                ELSE Items(SelectSeq(defaultItems.items,
                                     LAMBDA item : ~known(item)))
    IN  IF walked.error # "none" THEN walked
        ELSE Return(SetAddAll(addDefaults(walked.value, excludes, kept),
                              includes))

filterItems(list, includes, excludes, targets, defaultItems) ==
    LET walked == filterList(list, excludes, targets, <<>>)
    IN  IF walked.error # "none" THEN walked
        ELSE Return(SetAddAll(addDefaults(walked.value, excludes, defaultItems),
                              includes))

-----------------------------------------------------------------------------
(* logPlugin, lines 57-67 *)

\* Object.keys of a target map, in the order the keys are walked.
EnvOrder == <<"chrome", "node">>

RECURSIVE Joined(_)
Joined(keys) ==
    IF keys = <<>> THEN "" ELSE " " \o Head(keys) \o Joined(Tail(keys))

\* One line per plugin: its name and the targets that lack it. semver.lt
\* throws a TypeError on a target version that is not valid, which line 60
\* reaches when the plugin's table has the key.
logPlugin(plugin, targets, list) ==
    LET known == {i \in 1..Len(list) : list[i].name = plugin}
        envList == IF known = {} THEN EmptyMap
                   ELSE list[CHOOSE i \in known : TRUE].plugin
        lacks(b) ==
            \/ b \notin DOMAIN envList
            \/ semverLt(targets[b], semverify(envList[b]))
        filteredList ==
            SelectSeq(EnvOrder, LAMBDA b : b \in DOMAIN targets /\ lacks(b))
    IN  IF \E b \in DOMAIN targets :
                b \in DOMAIN envList /\ ~semverValid(targets[b])
        THEN Throw("TypeError")
        ELSE Return("  " \o plugin \o " {" \o Joined(filteredList) \o " }")

\* lines 195-197: the lines of the transformations, up to the first throw
RECURSIVE logPlugins(_, _, _, _)
logPlugins(transformations, targets, list, out) ==
    IF transformations = <<>> THEN Return(out)
    ELSE LET line == logPlugin(Head(transformations), targets, list)
         IN  IF line.error # "none" THEN [error |-> line.error, value |-> out]
             ELSE logPlugins(Tail(transformations), targets, list,
                             Append(out, line.value))

-----------------------------------------------------------------------------
(* buildPreset, lines 120-249 *)

DeprecationNotice == "The uglify target has been deprecated."

Banner == "babel-preset-env: DEBUG option"

\* line 135: optionsTargets && optionsTargets.uglify
hasUglifyTargetIn(optionsTargets) == "uglify" \in DOMAIN optionsTargets

\* line 137: delete optionsTargets.uglify
deleteUglify(optionsTargets) ==
    [e \in DOMAIN optionsTargets \ {"uglify"} |-> optionsTargets[e]]

\* lines 135-143; the flag plays no part
deprecationLog_Once(optionsTargets, logged) ==
    IF hasUglifyTargetIn(optionsTargets) /\ ~logged
    THEN <<DeprecationNotice>> ELSE <<>>

deprecationLog(optionsTargets, logged) ==
    IF hasUglifyTargetIn(optionsTargets) THEN <<DeprecationNotice>> ELSE <<>>

\* ./targets-parser: the normalized target map of the remaining entries
getTargets(optionsTargets) == optionsTargets

\* line 149
transformTargetsOf_Always(useSyntax, hasUglifyTarget, targets) == targets

transformTargetsOf(useSyntax, hasUglifyTarget, targets) ==
    IF ~useSyntax \/ hasUglifyTarget THEN EmptyMap ELSE targets

\* line 173: debug && !hasBeenLogged
shouldLog_Always(debug, logged) == debug

shouldLog(debug, logged) == debug /\ ~logged

\* lines 175-198, after the flag is set
summaryLog(useSyntax, hasUglifyTarget, transformations, transformTargets) ==
    LET lines == logPlugins(transformations, transformTargets, pluginList, <<>>)
        head == IF ~useSyntax THEN "Added all plugins (useSyntax: false):"
                ELSE IF hasUglifyTarget THEN "Added all plugins (target: uglify):"
                ELSE "Added the following plugins based on your targets:"
    IN  IF transformations = <<>>
        THEN Return(<<Banner, "Based on your targets none were added.">>)
        ELSE [error |-> lines.error, value |-> <<Banner, head>> \o lines.value]

\* require of "babel-plugin-" + name, lines 205 and 211
require(name) == "babel-plugin-" \o name

\* lines 203-208
moduleEntry(moduleType, loose) ==
    IF moduleType # "false" /\ moduleType \in DOMAIN moduleTransformations
    THEN << [plugin  |-> require(moduleTransformations[moduleType]),
             options |-> [loose |-> loose]] >>
    ELSE <<>>

\* lines 210-212
transformEntries(transformations, loose) ==
    [i \in 1..Len(transformations) |->
        [plugin |-> require(transformations[i]), options |-> [loose |-> loose]]]

\* lines 223-241
builtInsEntry(useBuiltIns, debug, polyfills, regenerator) ==
    LET options == [debug |-> debug, polyfills |-> polyfills,
                    regenerator |-> regenerator]
    IN  IF useBuiltIns = "usage"
        THEN << [plugin |-> "addUsedBuiltInsPlugin", options |-> options] >>
        ELSE IF useBuiltIns = "entry"
        THEN << [plugin |-> "useBuiltInsEntryPlugin", options |-> options] >>
        ELSE <<>>

\* lines 201-248
pluginsOf_ModuleLast(opts, transformations, polyfills) ==
    transformEntries(transformations, opts.loose)
    \o moduleEntry(opts.moduleType, opts.loose)
    \o builtInsEntry(opts.useBuiltIns, opts.debug, polyfills,
                     SetHas(transformations, "transform-regenerator"))

pluginsOf(opts, transformations, polyfills) ==
    LET regenerator == SetHas(transformations, "transform-regenerator")
    IN  moduleEntry(opts.moduleType, opts.loose)
        \o transformEntries(transformations, opts.loose)
        \o builtInsEntry(opts.useBuiltIns, opts.debug, polyfills, regenerator)

\* lines 216-221 and 242-244
polyfillsLog(debug, useBuiltIns) ==
    IF ~debug THEN <<>>
    ELSE IF useBuiltIns \in {"usage", "entry"} THEN <<"Polyfills">>
    ELSE <<"Polyfills",
           "None were added, since the useBuiltIns option was not set.">>

\* A throw of filterItems at lines 151-170 ends the call there: the block of
\* lines 173-199 is not reached, the flag is as it was.
abortedCall_LoggedFirst(error, notice, debug, logged) ==
    [outcome |-> Throw(error),
     console |-> notice \o (IF debug /\ ~logged THEN <<Banner>> ELSE <<>>),
     hasBeenLogged |-> logged \/ debug]

abortedCall(error, notice, debug, logged) ==
    [outcome |-> Throw(error), console |-> notice, hasBeenLogged |-> logged]

\* The whole call, from the normalized options and the flag as it finds it:
\* the outcome, what was logged, and the flag as it leaves it.
buildPreset(opts, logged) ==
    LET hasUglifyTarget == hasUglifyTargetIn(opts.targets)
        notice == deprecationLog(opts.targets, logged)
        targets == getTargets(deleteUglify(opts.targets))
        include == transformIncludesAndExcludes(opts.include)
        exclude == transformIncludesAndExcludes(opts.exclude)
        transformTargets ==
            transformTargetsOf(opts.useSyntax, hasUglifyTarget, targets)
        transformations ==
            filterItems(pluginList, include.plugins, exclude.plugins,
                        transformTargets, Null)
        polyfillTargets == getBuiltInTargets(targets)
        polyfills ==
            IF opts.useBuiltIns # "off"
            THEN filterItems(builtInsList, include.builtIns, exclude.builtIns,
                             polyfillTargets,
                             getPlatformSpecificDefaultFor(polyfillTargets))
            ELSE Return(<<>>)
        logs == shouldLog(opts.debug, logged)
        summary == summaryLog(opts.useSyntax, hasUglifyTarget,
                              transformations.value, transformTargets)
    IN  IF transformations.error # "none"
        THEN abortedCall(transformations.error, notice, opts.debug, logged)
        ELSE IF polyfills.error # "none"
        THEN abortedCall(polyfills.error, notice, opts.debug, logged)
        ELSE IF logs /\ summary.error # "none"
        THEN [outcome |-> Throw(summary.error),
              console |-> notice \o summary.value, hasBeenLogged |-> TRUE]
        ELSE [outcome |->
                Return([plugins |-> pluginsOf(opts, transformations.value,
                                              polyfills.value)]),
              console |-> notice
                          \o (IF logs THEN summary.value ELSE <<>>)
                          \o polyfillsLog(opts.debug, opts.useBuiltIns),
              hasBeenLogged |-> logged \/ logs]

-----------------------------------------------------------------------------
Init ==
    /\ hasBeenLogged = FALSE
    /\ pc = "idle"
    /\ callee = "none"
    /\ args = <<>>
    /\ ret = Return(<<>>)
    /\ console = <<>>
    /\ banners = 0

CallIsPluginRequired ==
    /\ pc = "idle"
    /\ \E T \in TargetMaps, S \in SupportTables :
        /\ args' = [supportedEnvironments |-> T, plugin |-> S]
        /\ ret' = isPluginRequired(T, S)
    /\ callee' = "isPluginRequired"
    /\ pc' = "done"
    /\ console' = <<>>
    /\ UNCHANGED <<hasBeenLogged, banners>>

CallGetPlatformSpecificDefaultFor ==
    /\ pc = "idle"
    /\ \E T \in TargetMaps :
        /\ args' = [targets |-> T]
        /\ ret' = Return(getPlatformSpecificDefaultFor(T))
    /\ callee' = "getPlatformSpecificDefaultFor"
    /\ pc' = "done"
    /\ console' = <<>>
    /\ UNCHANGED <<hasBeenLogged, banners>>

CallFilterItems ==
    /\ pc = "idle"
    /\ \E list \in Catalogs, includes \in NameLists, excludes \in ExcludeLists,
          targets \in FilterTargets, defaultItems \in DefaultSets :
        /\ args' = [list |-> list, includes |-> includes,
                    excludes |-> excludes, targets |-> targets,
                    defaultItems |-> defaultItems]
        /\ ret' = filterItems(list, includes, excludes, targets, defaultItems)
    /\ callee' = "filterItems"
    /\ pc' = "done"
    /\ console' = <<>>
    /\ UNCHANGED <<hasBeenLogged, banners>>

CallBuildPreset ==
    /\ pc = "idle"
    /\ \E opts \in Options :
        \E call \in {buildPreset(opts, hasBeenLogged)} :
            /\ args' = opts
            /\ ret' = call.outcome
            /\ console' = call.console
            /\ hasBeenLogged' = call.hasBeenLogged
            /\ banners' = IF SetHas(call.console, Banner) /\ banners < MaxBanners
                          THEN banners + 1 ELSE banners
    /\ callee' = "buildPreset"
    /\ pc' = "done"

\* The caller takes the outcome; everything but the flag is discarded.
Discard ==
    /\ pc = "done"
    /\ pc' = "idle"
    /\ callee' = "none"
    /\ args' = <<>>
    /\ ret' = Return(<<>>)
    /\ console' = <<>>
    /\ UNCHANGED <<hasBeenLogged, banners>>

\* The process: calls of the preset, one after the other.
Next ==
    \/ CallBuildPreset
    \/ Discard

Spec == Init /\ [][Next]_vars

\* Direct calls of the functions the preset is made of.
NextPure ==
    \/ CallIsPluginRequired
    \/ CallGetPlatformSpecificDefaultFor
    \/ CallFilterItems
    \/ Discard

SpecPure == Init /\ [][NextPure]_vars

-----------------------------------------------------------------------------
(* Vocabulary of the properties *)

IsCall(f) == pc = "done" /\ callee = f

Returned == ret.error = "none"

AllValid(T) == \A k \in DOMAIN T : semverValid(T[k])

Members(s) == {s[i] : i \in 1..Len(s)}

CatalogNames(list) == {list[i].name : i \in 1..Len(list)}

TableOf(list, n) == list[CHOOSE i \in 1..Len(list) : list[i].name = n].plugin

IndexIn(s, x) == CHOOSE i \in 1..Len(s) : s[i] = x

\* A full version a.b.c as the number a*(M*M) + b*M + c, M above every part.
Weight(v) == (v[1] * (MaxMajor + 2) + v[2]) * (MaxMajor + 2) + v[3]

\* A support-table version as a full version.
Full(v) == IF Len(v) = 3 THEN v ELSE v \o <<0, 0>>

-----------------------------------------------------------------------------
(* C1 *)

\* C1: for a target map T of valid versions and a support table S,
\* isPluginRequired returns true exactly when T is empty or some environment
\* k of T has no entry in S or has S[k], as a full version, strictly greater
\* than T[k]; otherwise it returns false.
C1_RequiredIffSomeEnvironment ==
    (IsCall("isPluginRequired") /\ AllValid(args.supportedEnvironments)) =>
        LET T == args.supportedEnvironments
            S == args.plugin
        IN  /\ Returned
            /\ ret.value =
                 (\/ DOMAIN T = {}
                  \/ \E k \in DOMAIN T :
                        \/ k \notin DOMAIN S
                        \/ Weight(Full(S[k])) > Weight(T[k]))

\* Two environments, one supported since exactly the targeted version and
\* one since a later minor of it: required because of the second alone.
C1_Witness ==
    /\ IsCall("isPluginRequired")
    /\ AllValid(args.supportedEnvironments)
    /\ DOMAIN args.supportedEnvironments = Envs
    /\ DOMAIN args.plugin = Envs
    /\ args.plugin["chrome"] = <<1>>
    /\ args.supportedEnvironments["chrome"] = <<1, 0, 0>>
    /\ args.plugin["node"] = <<1, 1, 0>>
    /\ args.supportedEnvironments["node"] = <<1, 0, 1>>
    /\ Returned /\ ret.value = TRUE

-----------------------------------------------------------------------------
(* C2 *)

\* C2: isPluginRequired throws InvalidTargetVersion whenever some value of
\* the target map is not a valid semantic version, whatever the support
\* table is.
C2_InvalidTargetAlwaysThrows ==
    (/\ IsCall("isPluginRequired")
     /\ ~AllValid(args.supportedEnvironments)) =>
        ret.error = "InvalidTargetVersion"

-----------------------------------------------------------------------------
(* C3 *)

\* C3: with a valid target map, filterItems returns, and every member of
\* the include set is in its result, also a member that is excluded and a
\* member that neither the catalog nor the default set knows.
C3_IncludeWins ==
    (IsCall("filterItems") /\ AllValid(args.targets)) =>
        /\ Returned
        /\ Members(args.includes) \subseteq Members(ret.value)

\* One included name is excluded too, another is unknown to the catalog and
\* to the defaults.
C3_Witness ==
    /\ IsCall("filterItems")
    /\ AllValid(args.targets)
    /\ Returned
    /\ Len(args.list) > 0
    /\ \E n \in Members(args.includes) :
            n \in Members(args.excludes) /\ n \in CatalogNames(args.list)
    /\ \E n \in Members(args.includes) :
            /\ n \notin CatalogNames(args.list)
            /\ n \notin Members(args.defaultItems.items)
            /\ n \in Members(ret.value)

-----------------------------------------------------------------------------
(* C4 *)

\* C4: when a default set is given, a default item that is not included is
\* in the result of filterItems exactly when it is not excluded, whatever
\* the targets and the item's own support table say.
C4_DefaultsOnlyExcludable ==
    (IsCall("filterItems") /\ Returned /\ ~args.defaultItems.isNull) =>
        \A d \in Members(args.defaultItems.items) \ Members(args.includes) :
            d \in Members(ret.value) <=> d \notin Members(args.excludes)

\* A default item that the catalog knows as supported since the targeted
\* version (so not required by the targets) is in the result all the same.
C4_Witness ==
    /\ IsCall("filterItems")
    /\ Returned
    /\ ~args.defaultItems.isNull
    /\ args.includes = <<>>
    /\ args.targets = [e \in {"chrome"} |-> <<MaxMajor, 0, 0>>]
    /\ \E d \in Members(args.defaultItems.items) :
            /\ d \in CatalogNames(args.list)
            /\ TableOf(args.list, d) = [e \in {"chrome"} |-> <<1>>]
            /\ d \notin Members(args.excludes)
            /\ d \in Members(ret.value)

-----------------------------------------------------------------------------
(* C5 *)

\* C5: getPlatformSpecificDefaultFor returns null exactly when the target
\* map is not empty and all its keys are "node"; in every other case it
\* returns the default item set.
C5_NullOnlyForNodeAlone ==
    IsCall("getPlatformSpecificDefaultFor") =>
        LET names == DOMAIN args.targets
        IN  /\ ret.value.isNull <=> (names # {} /\ names \subseteq {"node"})
            /\ ~ret.value.isNull => ret.value.items = defaultWebIncludes

C5_Witness ==
    /\ IsCall("getPlatformSpecificDefaultFor")
    /\ DOMAIN args.targets = {"node"}
    /\ ret.value.isNull

-----------------------------------------------------------------------------
(* Reading the list that buildPreset returns *)

PluginNames == {pluginList[i].name : i \in 1..Len(pluginList)}

ModulePlugins ==
    {"babel-plugin-" \o moduleTransformations[m] : m \in DOMAIN moduleTransformations}

BuiltInsPlugins == {"addUsedBuiltInsPlugin", "useBuiltInsEntryPlugin"}

\* The positions of the returned list that hold a syntax transformation.
TransformPositions(plugins) ==
    {i \in 1..Len(plugins) :
        plugins[i].plugin \notin ModulePlugins \cup BuiltInsPlugins}

\* The name a "babel-plugin-<name>" entry was required by.
NameAt(plugins, i) == SubSeq(plugins[i].plugin, 14, Len(plugins[i].plugin))

ResolvedTransformations(plugins) ==
    {NameAt(plugins, i) : i \in TransformPositions(plugins)}

HasUglify == "uglify" \in DOMAIN args.targets

RealTargets == [e \in DOMAIN args.targets \ {"uglify"} |-> args.targets[e]]

\* The module transform is first if there is one, the builtin-injection
\* entry last if there is one, and the syntax transformations lie between.
Framed(plugins) ==
    LET m == IF args.moduleType # "false"
                /\ args.moduleType \in DOMAIN moduleTransformations
             THEN 1 ELSE 0
        b == IF args.useBuiltIns \in {"entry", "usage"} THEN 1 ELSE 0
    IN  /\ Len(plugins) >= m + b
        /\ m = 1 => plugins[1].plugin =
                        "babel-plugin-" \o moduleTransformations[args.moduleType]
        /\ b = 1 => plugins[Len(plugins)].plugin =
                        (IF args.useBuiltIns = "usage"
                         THEN "addUsedBuiltInsPlugin"
                         ELSE "useBuiltInsEntryPlugin")
        /\ TransformPositions(plugins) = (m + 1)..(Len(plugins) - b)

InCatalogOrder(plugins, positions) ==
    \A i, j \in positions :
        i < j =>
            /\ NameAt(plugins, i) \in PluginNames
            /\ NameAt(plugins, j) \in PluginNames
            /\ IndexIn([k \in 1..Len(pluginList) |-> pluginList[k].name],
                       NameAt(plugins, i))
               < IndexIn([k \in 1..Len(pluginList) |-> pluginList[k].name],
                         NameAt(plugins, j))

InIncludeOrder(plugins, positions) ==
    /\ \A i \in positions : NameAt(plugins, i) \in Members(args.include)
    /\ \A i, j \in positions :
        i < j => IndexIn(args.include, NameAt(plugins, i))
                 < IndexIn(args.include, NameAt(plugins, j))

-----------------------------------------------------------------------------
(* C6 *)

\* C6 as stated: when useSyntax is false or the uglify target is present,
\* the resolved transformations include every transformation of the catalog.
C6_AllTransformationsAsStated ==
    (IsCall("buildPreset") /\ Returned /\ (~args.useSyntax \/ HasUglify)) =>
        PluginNames \subseteq ResolvedTransformations(ret.value.plugins)

\* C6, amended: when useSyntax is false or the uglify target is present, the
\* real targets play no part: the resolved transformations are the
\* transformations of the catalog that the exclude option does not name,
\* and those the include option names.
C6_AllButExcludedTransformations ==
    (IsCall("buildPreset") /\ Returned /\ (~args.useSyntax \/ HasUglify)) =>
        \A n \in PluginNames :
            n \in ResolvedTransformations(ret.value.plugins)
            <=> (n \notin Members(args.exclude) \/ n \in Members(args.include))

\* useSyntax is false and the real target is a chrome that supports every
\* transformation of the catalog: all of them are resolved.
C6_Witness ==
    /\ IsCall("buildPreset")
    /\ Returned
    /\ ~args.useSyntax
    /\ ~HasUglify
    /\ args.targets = [e \in {"chrome"} |-> <<MaxMajor, 0, 0>>]
    /\ args.exclude = <<"transform-regenerator">>
    /\ args.include = <<>>
    /\ ResolvedTransformations(ret.value.plugins)
         = PluginNames \ {"transform-regenerator"}

-----------------------------------------------------------------------------
(* C7 *)

\* C7 as stated: the returned list is the module transform (if moduleType
\* names one), then the selected syntax transformations in catalog order,
\* then the builtin-injection entry (if useBuiltIns is "entry" or "usage").
C7_CatalogOrderAsStated ==
    (IsCall("buildPreset") /\ Returned) =>
        LET plugins == ret.value.plugins
        IN  /\ Framed(plugins)
            /\ InCatalogOrder(plugins, TransformPositions(plugins))

\* C7, amended: the returned list is the module transform (if moduleType
\* names one), then the selected syntax transformations, then the
\* builtin-injection entry (if useBuiltIns is "entry" or "usage"); the
\* syntax transformations are those the walk of the catalog selected, in
\* catalog order, followed by the included ones it had not selected, in the
\* order of the include option.
C7_CatalogThenIncludeOrder ==
    (IsCall("buildPreset") /\ Returned) =>
        LET plugins == ret.value.plugins
            positions == TransformPositions(plugins)
        IN  /\ Framed(plugins)
            /\ \E split \in 0..Len(plugins) :
                /\ InCatalogOrder(plugins, {i \in positions : i <= split})
                /\ InIncludeOrder(plugins, {i \in positions : i > split})

\* All three parts are there, and an included transformation that the
\* targets do not require comes after the two that they do.
C7_Witness ==
    /\ IsCall("buildPreset")
    /\ Returned
    /\ Len(ret.value.plugins) = 5
    /\ args.moduleType = "commonjs"
    /\ args.useBuiltIns = "usage"
    /\ args.useSyntax /\ ~HasUglify
    /\ NameAt(ret.value.plugins, 2) = "transform-async-to-generator"
    /\ NameAt(ret.value.plugins, 3) = "transform-regenerator"
    /\ NameAt(ret.value.plugins, 4) = "transform-exponentiation-operator"

-----------------------------------------------------------------------------
(* C8 *)

BuildPresetStep == pc = "idle" /\ pc' = "done" /\ callee' = "buildPreset"

\* C8 as stated: the flag starts false, every call with debug enabled
\* leaves it true, it never goes back to false, and the banner is written
\* in the first call with debug enabled and in no other.
C8_FlagSetByFirstDebugCallAsStated ==
    /\ hasBeenLogged = FALSE
    /\ [][/\ hasBeenLogged => hasBeenLogged'
          /\ BuildPresetStep =>
                /\ args'.debug => hasBeenLogged'
                /\ SetHas(console', Banner) <=> (args'.debug /\ ~hasBeenLogged)
         ]_vars

\* C8, amended: the flag starts false, becomes true in the first call with
\* debug enabled that is not aborted before its logging step (here: by the
\* InvalidTargetVersion error of the filtering), and never goes back to
\* false; the banner is written in that call and in no other, so at most
\* once in the process.
C8_FlagSetByFirstLoggingCall ==
    /\ hasBeenLogged = FALSE
    /\ [][/\ hasBeenLogged => hasBeenLogged'
          /\ banners' <= 1
          /\ BuildPresetStep =>
                LET logs == /\ args'.debug
                            /\ ret'.error # "InvalidTargetVersion"
                IN  /\ hasBeenLogged' <=> (hasBeenLogged \/ logs)
                    /\ SetHas(console', Banner) <=> (logs /\ ~hasBeenLogged)
                    /\ banners' = banners
                                  + (IF logs /\ ~hasBeenLogged THEN 1 ELSE 0)
         ]_vars

\* A call with debug enabled, after the banner was written: no banner.
C8_Witness ==
    /\ IsCall("buildPreset")
    /\ Returned
    /\ args.debug
    /\ hasBeenLogged
    /\ banners = 1
    /\ ~SetHas(console, Banner)

-----------------------------------------------------------------------------
(* C9 *)

\* C9: a call of buildPreset writes the deprecation notice exactly when its
\* targets hold the uglify target, whatever the flag and the debug option.
C9_DeprecationNoticeEveryCall ==
    IsCall("buildPreset") =>
        (SetHas(console, DeprecationNotice) <=> HasUglify)

\* The notice of a call without debug, made after the banner was written.
C9_Witness ==
    /\ IsCall("buildPreset")
    /\ hasBeenLogged
    /\ ~args.debug
    /\ HasUglify
    /\ SetHas(console, DeprecationNotice)

-----------------------------------------------------------------------------
(* C10 *)

\* C10: a call of buildPreset that an InvalidTargetVersion error aborts
\* leaves the flag as it found it and writes no banner; and a call with
\* debug enabled that returns while the flag is false writes the banner, so
\* the banner is still written after an aborted call.
C10_AbortLeavesFlag ==
    [][/\ (BuildPresetStep /\ ret'.error = "InvalidTargetVersion") =>
            /\ hasBeenLogged' = hasBeenLogged
            /\ banners' = banners
            /\ ~SetHas(console', Banner)
       /\ (BuildPresetStep /\ ret'.error = "none"
                           /\ args'.debug /\ ~hasBeenLogged) =>
            SetHas(console', Banner)
      ]_vars

\* A first call with debug enabled that was aborted: no banner yet.
C10_Witness ==
    /\ IsCall("buildPreset")
    /\ ret.error = "InvalidTargetVersion"
    /\ args.debug
    /\ ~hasBeenLogged
    /\ banners = 0

====
